---- MODULE Spec2Model ----
(***************************************************************************)
(* A model of backend/main.py: the Flask handlers of the print backend,    *)
(* the two upload directories they write, and the two external systems     *)
(* they call (the LibreOffice command line and the CUPS client).           *)
(*                                                                         *)
(* Strings the code inspects (filenames, the copies form field) are        *)
(* sequences of one-character strings, so that rsplit, lower, splitext     *)
(* and int are computed rather than assumed.  Every external call draws    *)
(* its outcome (success, or one of the exceptions the call can raise)      *)
(* nondeterministically.                                                   *)
(***************************************************************************)
EXTENDS Integers, Sequences, FiniteSets, TLC

VARIABLES pc, req, loc, resp, uploads, converts, cupsJobs, served, lastWriter

vars == <<pc, req, loc, resp, uploads, converts, cupsJobs, served, lastWriter>>

(***************************************************************************)
(* Bounds.                                                                 *)
(***************************************************************************)
\* Requests accepted by the listener in one behaviour of Spec, which serves
\* one request at a time, and of SpecConc, which serves two concurrently.
MaxSeqRequests == 1
MaxConcRequests == 2

\* The handler threads of SpecConc and of Spec.
Threads == {1, 2}
SeqThreads == {1}

(***************************************************************************)
(* Strings.                                                                *)
(***************************************************************************)
Str_empty == << >>
Str_a == <<"a">>
Str_a_pdf == <<"a", ".", "p", "d", "f">>
Str_a_PDF == <<"a", ".", "P", "D", "F">>
Str_a_txt == <<"a", ".", "t", "x", "t">>
Str_a_png == <<"a", ".", "p", "n", "g">>
Str_a_jpg == <<"a", ".", "j", "p", "g">>
Str_a_jpeg == <<"a", ".", "j", "p", "e", "g">>
Str_a_gif == <<"a", ".", "g", "i", "f">>
Str_a_doc == <<"a", ".", "d", "o", "c">>
Str_a_docx == <<"a", ".", "d", "o", "c", "x">>
Str_a_Docx == <<"a", ".", "D", "o", "c", "x">>
Str_a_exe == <<"a", ".", "e", "x", "e">>
Str_a_dot == <<"a", ".">>
Str_dot_doc == <<".", "d", "o", "c">>
Str_a_pdf_exe == <<"a", ".", "p", "d", "f", ".", "e", "x", "e">>
Str_a_exe_doc == <<"a", ".", "e", "x", "e", ".", "d", "o", "c">>
Str_dot_pdf == <<".", "p", "d", "f">>

\* str.lower() on one character.
LowerChar(c) ==
    CASE c = "P" -> "p"
      [] c = "D" -> "d"
      [] c = "F" -> "f"
      [] OTHER -> c

\* str.lower()
Lower(s) == [i \in 1..Len(s) |-> LowerChar(s[i])]

\* '.' in filename
HasDot(s) == \E i \in 1..Len(s) : s[i] = "."

\* The index of the last '.', 0 when there is none.
LastDot(s) ==
    IF HasDot(s) THEN CHOOSE i \in 1..Len(s) :
                          /\ s[i] = "."
                          /\ \A j \in (i+1)..Len(s) : s[j] # "."
                 ELSE 0

\* filename.rsplit('.', 1)[1].lower(), for a filename that holds a '.'.
Extension(s) == Lower(SubSeq(s, LastDot(s) + 1, Len(s)))

ALLOWED_EXTENSIONS ==
    { <<"p", "d", "f">>, <<"t", "x", "t">>, <<"p", "n", "g">>, <<"j", "p", "g">>,
      <<"j", "p", "e", "g">>, <<"g", "i", "f">>, <<"d", "o", "c">>,
      <<"d", "o", "c", "x">> }

DocExtensions == { <<"d", "o", "c">>, <<"d", "o", "c", "x">> }

\* The check with split('.')[1] in place of rsplit('.', 1)[1].
allowed_file_first_dot(filename) ==
    /\ HasDot(filename)
    /\ LET first == CHOOSE i \in 1..Len(filename) :
                        filename[i] = "." /\ \A j \in 1..(i-1) : filename[j] # "."
           rest == SubSeq(filename, first + 1, Len(filename))
           stop == IF HasDot(rest)
                   THEN (CHOOSE i \in 1..Len(rest) :
                            rest[i] = "." /\ \A j \in 1..(i-1) : rest[j] # ".") - 1
                   ELSE Len(rest)
       IN  Lower(SubSeq(rest, 1, stop)) \in ALLOWED_EXTENSIONS

allowed_file(filename) ==
    HasDot(filename) /\ Extension(filename) \in ALLOWED_EXTENSIONS

\* os.path.splitext(filename)[0] for a name without a directory separator:
\* the name is cut at its last '.', unless only '.'s precede that one.
SplitextRoot(s) ==
    LET d == LastDot(s) IN
    IF d > 0 /\ \E j \in 1..(d-1) : s[j] # "." THEN SubSeq(s, 1, d - 1) ELSE s

\* os.path.splitext(filename)[0] + '.pdf'
PdfFilename(filename) == SplitextRoot(filename) \o Str_dot_pdf

Digits == {"0", "1", "2", "3", "4", "5", "6", "7", "8", "9"}

\* Whether int(s) returns; int raises ValueError on everything else.  (Signs,
\* surrounding blanks and underscores, which int also accepts, are not among
\* the field values drawn here.)
IsIntLiteral(s) == Len(s) > 0 /\ \A i \in 1..Len(s) : s[i] \in Digits

DigitValue(c) ==
    CASE c = "0" -> 0 [] c = "1" -> 1 [] c = "2" -> 2 [] c = "3" -> 3
      [] c = "4" -> 4 [] c = "5" -> 5 [] c = "6" -> 6 [] c = "7" -> 7
      [] c = "8" -> 8 [] c = "9" -> 9 [] OTHER -> 0

RECURSIVE IntOf(_)
IntOf(s) ==
    IF Len(s) = 0 THEN 0
    ELSE 10 * IntOf(SubSeq(s, 1, Len(s) - 1)) + DigitValue(s[Len(s)])

(***************************************************************************)
(* Values.                                                                 *)
(***************************************************************************)
\* request.form.get(...) of a field the form does not carry.
Absent == <<"<absent>">>
\* Python's None where the model holds a string.
None == "<None>"
\* No such entry / no such file.
NoFile == "<no file>"

Filenames ==
    { Str_empty, Str_a, Str_a_pdf, Str_a_PDF, Str_a_txt, Str_a_png, Str_a_jpg,
      Str_a_jpeg, Str_a_gif, Str_a_doc, Str_a_docx, Str_a_Docx, Str_a_exe,
      Str_a_dot, Str_dot_doc, Str_a_pdf_exe, Str_a_exe_doc }
ConcFilenames == { Str_a_pdf, Str_a_docx }

\* The printer field of the form: missing, empty, or a name.
PrinterFields == { None, "", "hp", "lj" }
ConcPrinterFields == { "hp" }
\* What conn.getPrinters() may return (the key sets).
Enumerations == { << >>, <<"hp">>, <<"hp", "lj">> }
ConcEnumerations == { << >>, <<"hp">> }

CopiesFields == { Absent, <<"2">>, <<"2", "x">> }
ConcCopiesFields == { Absent }

Contents == { "c1" }
ConcContents == { "c1", "c2" }
\* The file between open(path, 'wb') and the write.
Truncated == "<truncated>"

\* What LibreOffice writes for an input holding c.
PdfOf(c) ==
    CASE c = "c0" -> "pdf(c0)"
      [] c = "c1" -> "pdf(c1)"
      [] c = "c2" -> "pdf(c2)"
      [] OTHER -> "pdf(<truncated>)"

JobIds == {1, 2}
\* The job-state values the service may report.
JobStates == 2..10
\* One job's attributes as conn.getJobs() returns them; either key may be missing.
JobAttributes ==
    { [hasState |-> TRUE, state |-> s, hasReasons |-> hr,
       reasons |-> IF hr THEN "job-printing" ELSE None] :
          s \in JobStates, hr \in BOOLEAN }
    \cup
    { [hasState |-> FALSE, state |-> 0, hasReasons |-> hr,
       reasons |-> IF hr THEN "job-printing" ELSE None] : hr \in BOOLEAN }
\* What conn.getJobs() may return: a mapping from job ids to attributes.
JobLists == UNION { [S -> JobAttributes] : S \in SUBSET JobIds }

EmptyDir == [n \in {} |-> NoFile]

\* What a directory holds under a name.
FileAt(dir, name) == IF name \in DOMAIN dir THEN dir[name] ELSE NoFile

\* The directory after a file is written under a name.
WriteFile(dir, name, c) ==
    [n \in DOMAIN dir \cup {name} |-> IF n = name THEN c ELSE dir[n]]

NoReq ==
    [id |-> 0, kind |-> "none", hasFile |-> FALSE, filename |-> Str_empty, content |-> NoFile,
     printer |-> None, copies |-> Absent, page_range |-> None,
     paper_size |-> None, color_mode |-> None, job_id |-> 0]

\* The payload of a JSON response; a handler fills the fields it returns.
NoData ==
    [list |-> << >>, job_id |-> 0, status |-> "", reasons |-> "", path |-> << >>,
     media |-> "", quality |-> << >>, color |-> ""]

NoResp == [code |-> 0, json |-> FALSE, error |-> "", data |-> NoData]

\* A handler's locals, and the record of what it has done so far.
NoLoc ==
    [copies |-> 0, file_to_print |-> << >>, printers |-> {}, calls |-> << >>,
     jobs |-> << >>, saved |-> FALSE, conn |-> "", sub |-> "", conv |-> "",
     convRead |-> "", printRead |-> ""]

\* jsonify(...) with a status.
Json(code, error, data) == [code |-> code, json |-> TRUE, error |-> error, data |-> data]

\* The handler is left by an exception nothing in it catches.
Uncaught(exc) == [code |-> 500, json |-> FALSE, error |-> exc, data |-> NoData]

\* The directories are made at start only when missing (ensure_dir), and
\* nothing deletes a file: the process starts on empty directories, or on
\* what an earlier run left there (here: a previewed a.docx).
Init ==
    /\ pc = [t \in Threads |-> "idle"]
    /\ req = [t \in Threads |-> NoReq]
    /\ loc = [t \in Threads |-> NoLoc]
    /\ resp = [t \in Threads |-> NoResp]
    /\ \/ uploads = EmptyDir /\ converts = EmptyDir
       \/ /\ uploads = WriteFile(EmptyDir, Str_a_docx, "c0")
          /\ converts = WriteFile(EmptyDir, Str_a_pdf, "pdf(c0)")
    /\ cupsJobs = << >>
    /\ served = 0
    /\ lastWriter = [n \in DOMAIN uploads |-> [id |-> 0, content |-> uploads[n]]]

Range(f) == { f[i] : i \in DOMAIN f }

\* The handler on thread t returns (or is left by an exception).
Finish(t, response, newLoc) ==
    /\ pc' = [pc EXCEPT ![t] = "done"]
    /\ resp' = [resp EXCEPT ![t] = response]
    /\ loc' = [loc EXCEPT ![t] = newLoc]

\* The handler on thread t goes on to the step named next.
Goto(t, next, newLoc) ==
    /\ pc' = [pc EXCEPT ![t] = next]
    /\ loc' = [loc EXCEPT ![t] = newLoc]
    /\ UNCHANGED resp

\* The locals with one more external call recorded.
Called(l, call) == [l EXCEPT !.calls = Append(@, call)]

(***************************************************************************)
(* The requests a client may send.                                         *)
(***************************************************************************)
PrintRequests(FN, PR, CP, CT) ==
    { [NoReq EXCEPT !.kind = "print", !.hasFile = TRUE, !.filename = f,
                    !.content = c, !.printer = p, !.copies = n] :
          f \in FN, c \in CT, p \in PR, n \in CP }
    \cup
    { [NoReq EXCEPT !.kind = "print", !.printer = p, !.copies = n] :
          p \in PR, n \in CP }

PreviewRequests(FN, CT) ==
    { [NoReq EXCEPT !.kind = "preview", !.hasFile = TRUE, !.filename = f,
                    !.content = c] : f \in FN, c \in CT }
    \cup { [NoReq EXCEPT !.kind = "preview"] }

OtherRequests ==
    { [NoReq EXCEPT !.kind = "printers"] }
    \cup { [NoReq EXCEPT !.kind = "options", !.printer = p] : p \in {"hp", "lj"} }
    \cup { [NoReq EXCEPT !.kind = "job", !.job_id = j] : j \in JobIds }

Requests ==
    PrintRequests(Filenames, PrinterFields, CopiesFields, Contents)
    \cup PreviewRequests(Filenames, Contents) \cup OtherRequests

ConcRequests ==
    PrintRequests(ConcFilenames, ConcPrinterFields, ConcCopiesFields, ConcContents)
    \cup PreviewRequests(ConcFilenames, ConcContents)

\* The listener hands a request to a free thread.
Receive(t, RS, max) ==
    /\ pc[t] \in {"idle", "done"}
    /\ served < max
    /\ \E r \in RS : req' = [req EXCEPT ![t] = [r EXCEPT !.id = served + 1]]
    /\ pc' = [pc EXCEPT ![t] = "start"]
    /\ loc' = [loc EXCEPT ![t] = NoLoc]
    /\ resp' = [resp EXCEPT ![t] = NoResp]
    /\ served' = served + 1
    /\ UNCHANGED <<uploads, converts, cupsJobs, lastWriter>>

(***************************************************************************)
(* The outcomes of the external calls.                                     *)
(***************************************************************************)
\* subprocess.run([... 'libreoffice' ...], check=True): exit status 0, a
\* non-zero exit status, or no such binary.
ConvOutcomes == {"ok", "CalledProcessError", "FileNotFoundError"}
\* A block of CUPS calls: all return, cups.Connection() raises RuntimeError,
\* or a call raises something else (cups.IPPError).
CupsOutcomes == {"ok", "RuntimeError", "Exception"}

DummyPrinters == <<"dummy_printer_1", "dummy_printer_2">>

(***************************************************************************)
(* GET /api/printers                                                       *)
(***************************************************************************)
\* The handler without the fallback of lines 38-41.
get_printers_no_fallback(t) ==
    /\ pc[t] = "start" /\ req[t].kind = "printers"
    /\ \E o \in CupsOutcomes, printers \in Enumerations :
         LET l == [loc[t] EXCEPT !.conn = o,
                      !.calls = IF o = "RuntimeError" THEN <<"connect">>
                                ELSE <<"connect", "getPrinters">>]
         IN  IF o = "ok"
             THEN Finish(t, Json(200, "", [NoData EXCEPT !.list = printers]), l)
             ELSE Finish(t, Json(500, "An unexpected error occurred while fetching printers.",
                                 NoData), l)
    /\ UNCHANGED <<req, uploads, converts, cupsJobs, served, lastWriter>>

get_printers(t) ==
    /\ pc[t] = "start" /\ req[t].kind = "printers"
    /\ \E o \in CupsOutcomes, printers \in Enumerations :
         LET l == [loc[t] EXCEPT !.conn = o,
                      !.calls = IF o = "RuntimeError" THEN <<"connect">>
                                ELSE <<"connect", "getPrinters">>]
         IN  CASE o = "ok" ->
                    Finish(t, Json(200, "", [NoData EXCEPT !.list = printers]), l)
               [] o = "RuntimeError" ->
                    Finish(t, Json(200, "", [NoData EXCEPT !.list = DummyPrinters]), l)
               [] OTHER ->
                    Finish(t, Json(500, "An unexpected error occurred while fetching printers.",
                                   NoData), l)
    /\ UNCHANGED <<req, uploads, converts, cupsJobs, served, lastWriter>>

(***************************************************************************)
(* GET /api/printers/<printer_name>/options                                *)
(***************************************************************************)
\* attrs.get("print-quality-supported", []) as the service may report it.
QualityLists == { << >>, <<3, 4, 5>>, <<4, 7>> }

\* quality_map.get(q, 'unknown')
QualityName(q) ==
    CASE q = 3 -> "draft" [] q = 4 -> "normal" [] q = 5 -> "high" [] OTHER -> "unknown"

get_printer_options(t) ==
    /\ pc[t] = "start" /\ req[t].kind = "options"
    /\ \E o \in CupsOutcomes, printers \in Enumerations, quality \in QualityLists :
         LET found == req[t].printer \in Range(printers)
             l == [loc[t] EXCEPT !.conn = o, !.printers = Range(printers),
                      !.calls = IF o = "RuntimeError" THEN <<"connect">>
                                ELSE IF o = "ok" /\ ~found THEN <<"connect", "getPrinters">>
                                ELSE <<"connect", "getPrinters", "getPrinterAttributes">>]
         IN  CASE o = "RuntimeError" ->
                    Finish(t, Json(500, "Could not connect to CUPS to get printer options.",
                                   NoData), l)
               [] o = "Exception" ->
                    Finish(t, Json(500, "An unexpected error occurred", NoData), l)
               [] o = "ok" /\ ~found ->
                    Finish(t, Json(404, "Printer not found.", NoData), l)
               [] OTHER ->
                    Finish(t, Json(200, "",
                                   [NoData EXCEPT !.media = "media-supported",
                                        !.quality = [i \in 1..Len(quality) |->
                                                        QualityName(quality[i])],
                                        !.color = "print-color-mode-supported"]), l)
    /\ UNCHANGED <<req, uploads, converts, cupsJobs, served, lastWriter>>

(***************************************************************************)
(* GET /api/jobs/<job_id>                                                  *)
(***************************************************************************)
\* The map with the entries of 5 and 6 exchanged.
StatusOf_exchanged(attrs) ==
    IF ~attrs.hasState THEN "unknown"
    ELSE CASE attrs.state = 3 -> "pending"
           [] attrs.state = 4 -> "pending-held"
           [] attrs.state = 5 -> "processing-stopped"
           [] attrs.state = 6 -> "processing"
           [] attrs.state = 7 -> "canceled"
           [] attrs.state = 8 -> "aborted"
           [] attrs.state = 9 -> "completed"
           [] OTHER -> "unknown"

\* status_map.get(job_state, 'unknown'), job_state being None when the
\* attributes hold no job-state.
StatusOf(attrs) ==
    IF ~attrs.hasState THEN "unknown"
    ELSE CASE attrs.state = 3 -> "pending"
           [] attrs.state = 4 -> "pending-held"
           [] attrs.state = 5 -> "processing"
           [] attrs.state = 6 -> "processing-stopped"
           [] attrs.state = 7 -> "canceled"
           [] attrs.state = 8 -> "aborted"
           [] attrs.state = 9 -> "completed"
           [] OTHER -> "unknown"

\* job_attributes.get('job-state-reasons', 'none')
ReasonsOf(attrs) == IF attrs.hasReasons THEN attrs.reasons ELSE "none"

\* The body get_job_status returns for a job id and the service's job list.
JobStatusBody(job_id, jobs) ==
    IF job_id \in DOMAIN jobs
    THEN [NoData EXCEPT !.job_id = job_id, !.status = StatusOf(jobs[job_id]),
                        !.reasons = ReasonsOf(jobs[job_id])]
    ELSE [NoData EXCEPT !.job_id = job_id, !.status = "completed",
                        !.reasons = "not-found-in-active-jobs"]

get_job_status(t) ==
    /\ pc[t] = "start" /\ req[t].kind = "job"
    /\ \E o \in CupsOutcomes, jobs \in JobLists :
         LET l == [loc[t] EXCEPT !.conn = o,
                      !.calls = IF o = "RuntimeError" THEN <<"connect">>
                                ELSE <<"connect", "getJobs">>]
         IN  CASE o = "ok" ->
                    Finish(t, Json(200, "", JobStatusBody(req[t].job_id, jobs)),
                           [l EXCEPT !.jobs = jobs])
               [] o = "RuntimeError" ->
                    Finish(t, Json(500, "Could not connect to CUPS to check job status.",
                                   NoData), l)
               [] OTHER ->
                    Finish(t, Json(500, "An unexpected error occurred while checking job status.",
                                   NoData), l)
    /\ UNCHANGED <<req, uploads, converts, cupsJobs, served, lastWriter>>

(***************************************************************************)
(* file.save(upload_path), shared by the print and the preview handler.    *)
(* The file is opened for writing, which truncates it, and then written;   *)
(* another thread may run between the two.  The open raises (OSError) when *)
(* the path cannot be created: the upload directory is made only by the    *)
(* __main__ block, and the client's filename is used as it came.           *)
(***************************************************************************)
\* A request stored under a name of its own, which the code does not do.
upload_name_per_request(t) ==
    req[t].filename \o << CASE req[t].id = 1 -> "#1" [] req[t].id = 2 -> "#2"
                            [] OTHER -> "#n" >>

\* filename = file.filename: the name the upload is stored under.
upload_name(t) == req[t].filename

UploadPath(name) == <<"uploads", name>>
ConvertPath(filename) == <<"converts", PdfFilename(filename)>>

\* The content a path holds.
ReadPath(path) ==
    IF path[1] = "uploads" THEN FileAt(uploads, path[2]) ELSE FileAt(converts, path[2])

SaveOpen(t) ==
    /\ pc[t] = "save"
    /\ \E ok \in BOOLEAN :
         IF ok
         THEN /\ uploads' = WriteFile(uploads, upload_name(t), Truncated)
              /\ Goto(t, "write", Called(loc[t], "save"))
         ELSE /\ Finish(t, Uncaught("OSError"), Called(loc[t], "save"))
              /\ UNCHANGED uploads
    /\ UNCHANGED <<req, converts, cupsJobs, served, lastWriter>>

SaveWrite(t, next) ==
    /\ pc[t] = "write"
    /\ uploads' = WriteFile(uploads, upload_name(t), req[t].content)
    /\ lastWriter' = WriteFile(lastWriter, upload_name(t),
                                [id |-> req[t].id, content |-> req[t].content])
    /\ Goto(t, next, [loc[t] EXCEPT !.saved = TRUE,
                                   !.file_to_print = UploadPath(upload_name(t))])
    /\ UNCHANGED <<req, converts, cupsJobs, served>>

\* LibreOffice reads the upload and writes the PDF into the convert directory,
\* under the name the handlers compute for it (pdf_filename).
RunConversion(t) ==
    converts' = WriteFile(converts, PdfFilename(req[t].filename),
                          PdfOf(FileAt(uploads, upload_name(t))))

(***************************************************************************)
(* POST /api/print                                                         *)
(***************************************************************************)
\* Lines 86-102 and 152: the checks before anything is written.
print_validate(t) ==
    /\ pc[t] = "start" /\ req[t].kind = "print"
    /\ LET r == req[t] IN
       IF ~r.hasFile
       THEN Finish(t, Json(400, "No file part", NoData), loc[t])
       ELSE IF r.copies # Absent /\ ~IsIntLiteral(r.copies)
       THEN Finish(t, Uncaught("ValueError"), loc[t])
       ELSE IF r.filename = Str_empty
       THEN Finish(t, Json(400, "No selected file", NoData), loc[t])
       ELSE IF r.printer \in {None, ""}
       THEN Finish(t, Json(400, "No printer selected", NoData), loc[t])
       ELSE IF allowed_file(r.filename)
       THEN Goto(t, "save",
                 [loc[t] EXCEPT !.copies = IF r.copies = Absent THEN 1
                                           ELSE IntOf(r.copies)])
       ELSE Finish(t, Json(400, "File type not allowed", NoData), loc[t])
    /\ UNCHANGED <<req, uploads, converts, cupsJobs, served, lastWriter>>

print_save_open(t) == req[t].kind = "print" /\ SaveOpen(t)

\* The handler without its conversion branch.
print_save_write_skips_conversion(t) == req[t].kind = "print" /\ SaveWrite(t, "cups")

print_save_write(t) ==
    /\ req[t].kind = "print"
    /\ SaveWrite(t, IF Extension(req[t].filename) \in DocExtensions
                    THEN "convert" ELSE "cups")

\* Lines 111-122.
print_convert(t) ==
    /\ pc[t] = "convert" /\ req[t].kind = "print"
    /\ \E o \in ConvOutcomes :
         LET l == [Called(loc[t], "convert") EXCEPT !.conv = o,
                      !.convRead = IF o = "FileNotFoundError" THEN ""
                                   ELSE FileAt(uploads, upload_name(t))]
         IN  IF o = "ok"
             THEN /\ RunConversion(t)
                  /\ Goto(t, "cups",
                          [l EXCEPT !.file_to_print = ConvertPath(req[t].filename)])
             ELSE /\ Finish(t, Json(500, "Failed to convert document for printing.",
                                    NoData), l)
                  /\ UNCHANGED converts
    /\ UNCHANGED <<req, uploads, cupsJobs, served, lastWriter>>

\* The block without the check of line 128.
print_enumerate_unchecked(t, ES) ==
    /\ pc[t] = "cups" /\ req[t].kind = "print"
    /\ \E o \in CupsOutcomes, printers \in ES :
         LET l == [loc[t] EXCEPT !.conn = o, !.printers = Range(printers),
                      !.calls = IF o = "RuntimeError" THEN Append(@, "connect")
                                ELSE @ \o <<"connect", "getPrinters">>]
         IN  CASE o = "RuntimeError" ->
                    Finish(t, Json(500, "Could not connect to CUPS printing service.",
                                   NoData), l)
               [] o = "Exception" ->
                    Finish(t, Json(500, "An unexpected error occurred during printing.",
                                   NoData), l)
               [] OTHER -> Goto(t, "submit", l)
    /\ UNCHANGED <<req, uploads, converts, cupsJobs, served, lastWriter>>

\* Lines 126-129: the connection, the enumeration and the printer check.
print_enumerate(t, ES) ==
    /\ pc[t] = "cups" /\ req[t].kind = "print"
    /\ \E o \in CupsOutcomes, printers \in ES :
         LET l == [loc[t] EXCEPT !.conn = o, !.printers = Range(printers),
                      !.calls = IF o = "RuntimeError" THEN Append(@, "connect")
                                ELSE @ \o <<"connect", "getPrinters">>]
         IN  CASE o = "RuntimeError" ->
                    Finish(t, Json(500, "Could not connect to CUPS printing service.",
                                   NoData), l)
               [] o = "Exception" ->
                    Finish(t, Json(500, "An unexpected error occurred during printing.",
                                   NoData), l)
               [] o = "ok" /\ req[t].printer \notin Range(printers) ->
                    Finish(t, Json(404, "Printer '<printer_name>' not found.", NoData), l)
               [] OTHER -> Goto(t, "submit", l)
    /\ UNCHANGED <<req, uploads, converts, cupsJobs, served, lastWriter>>

\* The job the print service is handed by conn.printFile(...).
NewJob(t) ==
    [id |-> Len(cupsJobs) + 1, request |-> req[t].id, printer |-> req[t].printer,
     file |-> loc[t].file_to_print, content |-> ReadPath(loc[t].file_to_print),
     title |-> <<"WebApp Print - ", req[t].filename>>,
     copies |-> loc[t].copies,
     media |-> IF req[t].paper_size = None THEN "A4" ELSE req[t].paper_size,
     color |-> IF req[t].color_mode = None THEN "color" ELSE req[t].color_mode]

\* A submission that answers with the job the service already holds for the
\* same printer and title, instead of submitting again.
print_submit_deduplicating(t) ==
    /\ pc[t] = "submit" /\ req[t].kind = "print"
    /\ LET same == { i \in DOMAIN cupsJobs :
                        /\ cupsJobs[i].printer = NewJob(t).printer
                        /\ cupsJobs[i].title = NewJob(t).title }
           l == [Called(loc[t], "printFile") EXCEPT !.sub = "ok"]
       IN  IF same # {}
           THEN /\ Finish(t, Json(200, "", [NoData EXCEPT !.status = "success",
                                 !.job_id = cupsJobs[CHOOSE i \in same : TRUE].id]), l)
                /\ UNCHANGED cupsJobs
           ELSE /\ cupsJobs' = Append(cupsJobs, NewJob(t))
                /\ Finish(t, Json(200, "", [NoData EXCEPT !.status = "success",
                                                !.job_id = NewJob(t).id]),
                          [l EXCEPT !.printRead = NewJob(t).content])
    /\ UNCHANGED <<req, uploads, converts, served, lastWriter>>

\* Lines 132-150: the submission.  The service numbers the jobs it accepts.
print_submit(t) ==
    /\ pc[t] = "submit" /\ req[t].kind = "print"
    /\ \E o \in {"ok", "Exception"} :
         LET l == [Called(loc[t], "printFile") EXCEPT !.sub = o] IN
         IF o = "ok"
         THEN /\ cupsJobs' = Append(cupsJobs, NewJob(t))
              /\ Finish(t, Json(200, "", [NoData EXCEPT !.status = "success",
                                              !.job_id = NewJob(t).id]),
                        [l EXCEPT !.printRead = NewJob(t).content])
         ELSE /\ Finish(t, Json(500, "An unexpected error occurred during printing.",
                                NoData), l)
              /\ UNCHANGED cupsJobs
    /\ UNCHANGED <<req, uploads, converts, served, lastWriter>>

(***************************************************************************)
(* POST /api/preview                                                       *)
(***************************************************************************)
\* Lines 158-164 and 196.
preview_validate(t) ==
    /\ pc[t] = "start" /\ req[t].kind = "preview"
    /\ LET r == req[t] IN
       IF ~r.hasFile
       THEN Finish(t, Json(400, "No file part", NoData), loc[t])
       ELSE IF r.filename = Str_empty
       THEN Finish(t, Json(400, "No selected file", NoData), loc[t])
       ELSE IF allowed_file(r.filename)
       THEN Goto(t, "save", loc[t])
       ELSE Finish(t, Json(400, "File type not allowed", NoData), loc[t])
    /\ UNCHANGED <<req, uploads, converts, cupsJobs, served, lastWriter>>

preview_save_open(t) == req[t].kind = "preview" /\ SaveOpen(t)

\* The handler sending every upload to the conversion.
preview_save_write_converts_all(t) == req[t].kind = "preview" /\ SaveWrite(t, "convert")

preview_save_write(t) ==
    /\ req[t].kind = "preview"
    /\ SaveWrite(t, IF Extension(req[t].filename) \in DocExtensions
                    THEN "convert" ELSE "respond")

\* Lines 171-186.
preview_convert(t) ==
    /\ pc[t] = "convert" /\ req[t].kind = "preview"
    /\ \E o \in ConvOutcomes :
         LET l == [Called(loc[t], "convert") EXCEPT !.conv = o,
                      !.convRead = IF o = "FileNotFoundError" THEN ""
                                   ELSE FileAt(uploads, upload_name(t))]
         IN  CASE o = "ok" ->
                    /\ RunConversion(t)
                    /\ Finish(t, Json(200, "",
                                      [NoData EXCEPT !.path =
                                           <<"/api/converted/", PdfFilename(req[t].filename)>>]),
                              l)
               [] o = "CalledProcessError" ->
                    /\ Finish(t, Json(500, "Failed to convert document to PDF.", NoData), l)
                    /\ UNCHANGED converts
               [] OTHER ->
                    /\ Finish(t, Json(500, "File conversion utility not found on server.",
                                      NoData), l)
                    /\ UNCHANGED converts
    /\ UNCHANGED <<req, uploads, cupsJobs, served, lastWriter>>

\* Lines 189-194.
preview_respond(t) ==
    /\ pc[t] = "respond" /\ req[t].kind = "preview"
    /\ IF Extension(req[t].filename) = <<"p", "d", "f">>
       THEN Finish(t, Json(200, "", [NoData EXCEPT !.path =
                                        <<"/api/uploads/", req[t].filename>>]), loc[t])
       ELSE Finish(t, Json(400, "Preview for this file type is not supported.", NoData),
                   loc[t])
    /\ UNCHANGED <<req, uploads, converts, cupsJobs, served, lastWriter>>

(***************************************************************************)
(* The specifications.                                                     *)
(***************************************************************************)
\* One request at a time, drawn from every handler and a wide set of forms.
Next ==
    \E t \in SeqThreads :
        \/ Receive(t, Requests, MaxSeqRequests)
        \/ get_printers(t)
        \/ get_printer_options(t)
        \/ get_job_status(t)
        \/ print_validate(t)
        \/ print_save_open(t)
        \/ print_save_write(t)
        \/ print_convert(t)
        \/ print_enumerate(t, Enumerations)
        \/ print_submit(t)
        \/ preview_validate(t)
        \/ preview_save_open(t)
        \/ preview_save_write(t)
        \/ preview_convert(t)
        \/ preview_respond(t)

Spec == Init /\ [][Next]_vars

\* Two threads serving uploads concurrently.
NextConc ==
    \E t \in Threads :
        \/ Receive(t, ConcRequests, MaxConcRequests)
        \/ print_validate(t)
        \/ print_save_open(t)
        \/ print_save_write(t)
        \/ print_convert(t)
        \/ print_enumerate(t, ConcEnumerations)
        \/ print_submit(t)
        \/ preview_validate(t)
        \/ preview_save_open(t)
        \/ preview_save_write(t)
        \/ preview_convert(t)
        \/ preview_respond(t)

SpecConc == Init /\ [][NextConc]_vars

(***************************************************************************)
(* What the claims speak of.                                               *)
(***************************************************************************)
IsPrint(t) == req[t].kind = "print"
IsPreview(t) == req[t].kind = "preview"
IsDone(t) == pc[t] = "done"

\* How many times the request on thread t has made the external call c.
CountCall(t, c) == Cardinality({ i \in DOMAIN loc[t].calls : loc[t].calls[i] = c })

\* The calls to the print service a print request makes.
PrintServiceCalls == {"connect", "getPrinters", "printFile"}
NoPrintServiceCall(t) ==
    \A i \in DOMAIN loc[t].calls : loc[t].calls[i] \notin PrintServiceCalls

\* The jobs the print service holds from the request on thread t.
JobsOf(t) == { i \in DOMAIN cupsJobs : cupsJobs[i].request = req[t].id }

\* The form's filename ends in .doc or .docx (any case).
IsDocName(f) == HasDot(f) /\ Extension(f) \in DocExtensions

\* The first of the four checks the form fails, "" when it passes all four.
FirstFailedCheck(r) ==
    IF ~r.hasFile THEN "No file part"
    ELSE IF r.filename = Str_empty THEN "No selected file"
    ELSE IF r.printer \in {None, ""} THEN "No printer selected"
    ELSE IF ~allowed_file(r.filename) THEN "File type not allowed"
    ELSE ""

\* The copies field is missing or int() accepts it.
CopiesParse(r) == r.copies = Absent \/ IsIntLiteral(r.copies)

\* A print request that gets past line 102.
PassesValidation(t) ==
    IsPrint(t) /\ FirstFailedCheck(req[t]) = "" /\ CopiesParse(req[t])

ConversionFailed(t) == loc[t].conv \in {"CalledProcessError", "FileNotFoundError"}

\* Every print-service call of the request comes after a conversion that
\* had returned.
ConversionBeforePrintService(t) ==
    \A i \in DOMAIN loc[t].calls :
        loc[t].calls[i] \in PrintServiceCalls =>
            /\ loc[t].conv = "ok"
            /\ \E j \in 1..(i-1) : loc[t].calls[j] = "convert"

ConversionFailureEndsRequest(t) ==
    ConversionFailed(t) =>
        /\ IsDone(t)
        /\ resp[t] = Json(500, "Failed to convert document for printing.", NoData)
        /\ NoPrintServiceCall(t)
        /\ JobsOf(t) = {}

C2_ValidationOrder ==
    \A t \in Threads :
        (IsPrint(t) /\ IsDone(t) /\ FirstFailedCheck(req[t]) # "") =>
            /\ resp[t] = Json(400, FirstFailedCheck(req[t]), NoData)
            /\ loc[t].calls = << >>
            /\ JobsOf(t) = {}

\* C4, as claimed: every handler ends with a JSON response.
C4_EveryResponseIsJson ==
    \A t \in Threads : IsDone(t) => resp[t].json

\* The extensions the claim lists.
ClaimedExtensions ==
    { <<"p", "d", "f">>, <<"t", "x", "t">>, <<"p", "n", "g">>, <<"j", "p", "g">>,
      <<"j", "p", "e", "g">>, <<"g", "i", "f">>, <<"d", "o", "c">>,
      <<"d", "o", "c", "x">> }

\* The filename holds no '.', or what follows its last '.' is not listed.
DisallowedName(f) == ~HasDot(f) \/ Extension(f) \notin ClaimedExtensions

\* A print or preview request whose file part carries such a name.
CarriesDisallowedFile(t) ==
    (IsPrint(t) \/ IsPreview(t)) /\ req[t].hasFile /\ DisallowedName(req[t].filename)

FileTypeNotAllowed == Json(400, "File type not allowed", NoData)

\* C3, as claimed: every print or preview request carrying a disallowed
\* filename is answered with the file-type-not-allowed error and writes
\* nothing.  (Stated here for the requests whose filename is not empty and
\* whose copies field parses, where the claim already fails.)
C3_Original ==
    \A t \in Threads :
        (CarriesDisallowedFile(t) /\ IsDone(t)
           /\ req[t].filename # Str_empty /\ CopiesParse(req[t])) =>
            resp[t] = FileTypeNotAllowed /\ loc[t].calls = << >>

\* What such a request is answered with: the checks that come before the
\* extension check answer first.
C3_Response(t) ==
    IF IsPrint(t) /\ ~CopiesParse(req[t]) THEN Uncaught("ValueError")
    ELSE IF req[t].filename = Str_empty THEN Json(400, "No selected file", NoData)
    ELSE IF IsPrint(t) /\ req[t].printer \in {None, ""}
    THEN Json(400, "No printer selected", NoData)
    ELSE FileTypeNotAllowed

C3_Answered ==
    \A t \in Threads :
        CarriesDisallowedFile(t) =>
            /\ pc[t] \in {"start", "done"}
            /\ loc[t].calls = << >>
            /\ JobsOf(t) = {}
            /\ IsDone(t) => resp[t] = C3_Response(t)

C3_WritesNothing ==
    \A t \in Threads :
        (CarriesDisallowedFile(t) /\ pc'[t] # pc[t]) =>
            uploads' = uploads /\ converts' = converts

\* C3, amended: a print or preview request carrying a disallowed filename
\* never writes to the upload or the convert directory, and is answered with
\* the file-type-not-allowed error when the filename is not empty and, for a
\* print request, the printer field is present and the copies field parses;
\* otherwise with the answer of the earlier check (or, for an unparsable
\* copies field, the uncaught ValueError).
C3_Amended == []C3_Answered /\ [][C3_WritesNothing]_vars

\* A print request for a.pdf.exe, refused on directories that hold files.
C3_Witness ==
    \E t \in Threads :
        /\ IsPrint(t) /\ req[t].filename = Str_a_pdf_exe /\ req[t].printer = "hp"
        /\ IsDone(t) /\ resp[t] = FileTypeNotAllowed
        /\ uploads # EmptyDir /\ converts # EmptyDir

\* C5: a print request reaches the submission, and the print service holds a
\* job from it, only if the printer it names is in the enumeration the same
\* request fetched; a request whose printer is not in its enumeration is
\* answered 404 and submits nothing.
C5_SubmitsOnlyToEnumeratedPrinter ==
    \A t \in Threads :
        IsPrint(t) =>
            /\ (pc[t] = "submit" \/ CountCall(t, "printFile") > 0 \/ JobsOf(t) # {}) =>
                   /\ loc[t].conn = "ok"
                   /\ CountCall(t, "getPrinters") = 1
                   /\ req[t].printer \in loc[t].printers
            /\ \A j \in JobsOf(t) : cupsJobs[j].printer = req[t].printer
            /\ (IsDone(t) /\ loc[t].conn = "ok" /\ req[t].printer \notin loc[t].printers) =>
                   /\ resp[t].code = 404 /\ resp[t].json
                   /\ CountCall(t, "printFile") = 0
                   /\ JobsOf(t) = {}

\* A request for printer lj is refused because its enumeration holds hp only.
C5_Witness ==
    \E t \in Threads :
        /\ IsPrint(t) /\ IsDone(t) /\ req[t].printer = "lj"
        /\ loc[t].conn = "ok" /\ loc[t].printers = {"hp"}
        /\ resp[t].code = 404

\* C6: when cups.Connection() raises RuntimeError, list-printers answers 200
\* with the two placeholder names, and printer options, print and job status
\* answer with a 500 JSON error that carries no data.
C6_UnreachableService ==
    \A t \in Threads :
        (IsDone(t) /\ loc[t].conn = "RuntimeError") =>
            IF req[t].kind = "printers"
            THEN resp[t] = Json(200, "", [NoData EXCEPT
                                   !.list = <<"dummy_printer_1", "dummy_printer_2">>])
            ELSE /\ req[t].kind \in {"options", "print", "job"}
                 /\ resp[t].code = 500 /\ resp[t].json /\ resp[t].error # ""
                 /\ resp[t].data = NoData
                 /\ JobsOf(t) = {}

\* List-printers was asked while the service was unreachable.
C6_Witness ==
    \E t \in Threads :
        /\ req[t].kind = "printers" /\ IsDone(t) /\ loc[t].conn = "RuntimeError"
        /\ resp[t].code = 200

\* The status the claim gives for a job's attributes.
ClaimedStatus(attrs) ==
    IF attrs.hasState /\ attrs.state = 3 THEN "pending"
    ELSE IF attrs.hasState /\ attrs.state = 4 THEN "pending-held"
    ELSE IF attrs.hasState /\ attrs.state = 5 THEN "processing"
    ELSE IF attrs.hasState /\ attrs.state = 6 THEN "processing-stopped"
    ELSE IF attrs.hasState /\ attrs.state = 7 THEN "canceled"
    ELSE IF attrs.hasState /\ attrs.state = 8 THEN "aborted"
    ELSE IF attrs.hasState /\ attrs.state = 9 THEN "completed"
    ELSE "unknown"

\* C7: for every job id and every job list the service returns, the answer
\* is "completed"/"not-found-in-active-jobs" when the id is not in the list,
\* and otherwise the status of the state code (3..9, "unknown" for any other
\* or a missing code) with the service's reasons, "none" when it gives none.
C7_JobStatus ==
    \A t \in Threads :
        (req[t].kind = "job" /\ IsDone(t) /\ loc[t].conn = "ok") =>
            /\ resp[t].code = 200 /\ resp[t].json
            /\ resp[t].data.job_id = req[t].job_id
            /\ IF req[t].job_id \notin DOMAIN loc[t].jobs
               THEN /\ resp[t].data.status = "completed"
                    /\ resp[t].data.reasons = "not-found-in-active-jobs"
               ELSE LET attrs == loc[t].jobs[req[t].job_id] IN
                    /\ resp[t].data.status = ClaimedStatus(attrs)
                    /\ resp[t].data.reasons =
                           IF attrs.hasReasons THEN attrs.reasons ELSE "none"

\* Job 2 is asked for while the list holds job 1 completed and job 2
\* processing with no reasons.
C7_Witness ==
    \E t \in Threads :
        /\ req[t].kind = "job" /\ req[t].job_id = 2 /\ IsDone(t)
        /\ DOMAIN loc[t].jobs = {1, 2}
        /\ loc[t].jobs[1].hasState /\ loc[t].jobs[1].state = 9
        /\ loc[t].jobs[2].hasState /\ loc[t].jobs[2].state = 5
        /\ ~loc[t].jobs[2].hasReasons
        /\ resp[t].data.status = "processing" /\ resp[t].data.reasons = "none"

\* A preview request whose filename has an allowed extension.
PreviewOfAllowed(t) ==
    /\ IsPreview(t) /\ req[t].hasFile
    /\ HasDot(req[t].filename) /\ Extension(req[t].filename) \in ClaimedExtensions

PreviewAnswer(t) ==
    IF Extension(req[t].filename) = <<"p", "d", "f">>
    THEN resp[t] = Json(200, "", [NoData EXCEPT
                           !.path = <<"/api/uploads/", req[t].filename>>])
    ELSE IF Extension(req[t].filename) \in DocExtensions
    THEN TRUE
    ELSE resp[t] = Json(400, "Preview for this file type is not supported.", NoData)

SamePrintPair(t, u) ==
    /\ t # u
    /\ PassesValidation(t) /\ PassesValidation(u)
    /\ req[t].filename = req[u].filename
    /\ req[t].printer = req[u].printer

\* The claim's conditions: the conversion did not fail, no print-service
\* call raised, and the printer was in the enumeration.
ClaimedConditions(t) ==
    /\ ~ConversionFailed(t)
    /\ loc[t].conn # "RuntimeError" /\ loc[t].conn # "Exception"
    /\ loc[t].sub # "Exception"
    /\ ~(loc[t].conn = "ok" /\ req[t].printer \notin loc[t].printers)

\* The request on thread t made one submission and was answered with the id
\* of the one job the service holds from it.
OwnJob(t) ==
    /\ CountCall(t, "printFile") = 1
    /\ Cardinality(JobsOf(t)) = 1
    /\ resp[t].code = 200 /\ resp[t].data.status = "success"
    /\ \A j \in JobsOf(t) : resp[t].data.job_id = cupsJobs[j].id

NoSaveInProgress(f) ==
    \A t \in Threads : ~(pc[t] = "write" /\ req[t].filename = f)

\* The save that ran last decides what the upload directory holds.
C10_LastWriteWins ==
    \A f \in DOMAIN uploads :
        NoSaveInProgress(f) =>
            f \in DOMAIN lastWriter /\ uploads[f] = lastWriter[f].content

\* A conversion reads, and a submission hands over, what the shared path
\* holds when the step runs, whoever wrote it.
C10_ReadsSharedPath ==
    \A t \in Threads :
        /\ (CountCall(t, "convert")' > CountCall(t, "convert")
              /\ loc'[t].conv # "FileNotFoundError") =>
               loc'[t].convRead = FileAt(uploads, req[t].filename)
        /\ (Len(cupsJobs') > Len(cupsJobs)
              /\ cupsJobs'[Len(cupsJobs')].request = req[t].id) =>
               /\ loc'[t].printRead = ReadPath(loc[t].file_to_print)
               /\ cupsJobs'[Len(cupsJobs')].content = ReadPath(loc[t].file_to_print)
               /\ loc[t].file_to_print[2] =
                      IF IsDocName(req[t].filename) THEN PdfFilename(req[t].filename)
                      ELSE req[t].filename

====
